---- MODULE Spec2Model ----
(***************************************************************************)
(* The evaluators of the notebook "Dynamic systems with unlimited memory": *)
(* exponential_average, the running-maximum loop, the zero-crossing loop   *)
(* (zero_cross_counter) and the running-histogram loop (update_histogram). *)
(*                                                                         *)
(* Numbers.  The notebook computes with floats.  Here a hidden state v is  *)
(* the integer v * Scale (fixed point, exact for the run lengths the model *)
(* allows), and a smoothing parameter is the integer alpha with value      *)
(* alpha / AlphaDen.  Scalar inputs are integers.  A histogram input is an *)
(* integer number of hundredths (996 is 9.96) and a histogram bin key is   *)
(* an integer number of tenths (100 is the key 10.0).                      *)
(*                                                                         *)
(* One behaviour is one run of one evaluator on one input: Init picks the  *)
(* evaluator, its input sequence and its alpha; the actions are the        *)
(* statements of the evaluator's code, one loop iteration per step.        *)
(***************************************************************************)
EXTENDS Integers, Sequences, FiniteSets, TLC

VARIABLES prog, x, alpha, pc, p, h, h_t, h_all, n, err,
          h_old, h_arg, h_ave, h_var

vars == <<prog, x, alpha, pc, p, h, h_t, h_all, n, err,
          h_old, h_arg, h_ave, h_var>>

\* h_old, h_arg: the mapping object handed to the latest update_histogram
\* call, as its weights were when the call began and as the caller finds them
\* when the call has returned
call_vars == <<h_old, h_arg>>

\* h_ave, h_var: the hidden states of the running mean and of the running
\* variance recursions
rec_vars == <<h_ave, h_var>>

----------------------------------------------------------------------------
(* Bounds of the model *)

\* longest input sequence of the scalar evaluators
MaxLen == 5

\* longest input sequence of the histogram loop
MaxHistLen == 3

\* scalar inputs range over -MaxVal..MaxVal
MaxVal == 1

----------------------------------------------------------------------------
(* Numbers *)

\* denominator of the smoothing parameters (alpha = 0.9 is 9 / AlphaDen)
AlphaDen == 10

RECURSIVE Pow(_, _)
Pow(b, e) == IF e = 0 THEN 1 ELSE b * Pow(b, e - 1)

\* fixed-point scale of the hidden states: every product with alpha/AlphaDen
\* or (1 - alpha/AlphaDen) is exact for as many steps as a run can take
Scale == Pow(AlphaDen, IF MaxLen > MaxHistLen THEN MaxLen ELSE MaxHistLen)

\* the float value of the number v
Real(v) == v * Scale

\* alpha * a, and (1 - alpha) * a, for a fixed-point a
TimesAlpha(a, al) == (al * a) \div AlphaDen
TimesOneMinusAlpha(a, al) == ((AlphaDen - al) * a) \div AlphaDen

\* the smoothing parameters tried: 0, 0.1, 0.5, 0.9, 1
Alphas == {0, 1, AlphaDen \div 2, AlphaDen - 1, AlphaDen}

\* smoothing parameters outside [0,1]: -0.1 and 1.1
BadAlphas == {0 - 1, AlphaDen + 1}

\* alpha = 0.9 of the exponential-average cell, alpha = 0.1 of the histogram loop
ExpAlpha == AlphaDen - 1
HistAlpha == 1

Vals == (0 - MaxVal)..MaxVal

\* histogram inputs in hundredths: -0.20, 0.07, 0.25, 9.96, 10.30
HistVals == {0 - 20, 7, 25, 996, 1030}

SeqsUpTo(S, k) == UNION {[1..m -> S] : m \in 0..k}

\* Python's range(lo, hi)
Range(lo, hi) == lo..(hi - 1)

Progs == {"exponential_average", "running_max", "zero_cross", "histogram"}

----------------------------------------------------------------------------
(* State after the input of the run has been fixed, before its first       *)
(* statement.                                                              *)

NoHist == <<>>

Init ==
    /\ prog \in Progs
    /\ x \in (IF prog = "histogram" THEN SeqsUpTo(HistVals, MaxHistLen)
                                     ELSE SeqsUpTo(Vals, MaxLen))
    /\ alpha \in (IF prog \in {"exponential_average", "histogram"}
                    THEN Alphas \cup BadAlphas ELSE {ExpAlpha})
    /\ pc = "start"
    /\ p = 0
    /\ h = <<>>
    /\ h_t = NoHist
    /\ h_all = <<>>
    /\ n = 0
    /\ err = "none"
    /\ h_old = NoHist
    /\ h_arg = NoHist
    /\ h_ave = <<>>
    /\ h_var = <<>>

----------------------------------------------------------------------------
(* h = [x[0]] : the seed of the three scalar evaluators.  Indexing an      *)
(* empty list raises IndexError.                                           *)

\* an empty input seeds an empty list instead of raising
ListInitNoRaise(xs) ==
    IF Len(xs) = 0
      THEN [err |-> "none", h |-> <<>>]
      ELSE [err |-> "none", h |-> <<Real(xs[1])>>]

ListInit(xs) ==
    IF Len(xs) = 0
      THEN [err |-> "IndexError", h |-> <<>>]
      ELSE [err |-> "none", h |-> <<Real(xs[1])>>]

Seed(name) ==
    /\ prog = name
    /\ pc = "start"
    /\ LET r == ListInit(x) IN
         /\ h' = r.h
         /\ err' = r.err
         /\ pc' = IF r.err = "none" THEN "loop" ELSE "error"
    /\ UNCHANGED <<prog, x, alpha, h_t, h_all, n>>
    /\ UNCHANGED <<call_vars, rec_vars>>

----------------------------------------------------------------------------
(* exponential_average(x, alpha) *)

\* one iteration too many: range(len(x))
exp_range_full(xs) == Range(0, Len(xs))

\* for p in range(len(x) - 1)
exp_range(xs) == Range(0, Len(xs) - 1)

\* the two weights exchanged: (1 - alpha)*h[-1] + alpha*x_p
exp_update_swapped(h_prev, x_p, al) ==
    TimesOneMinusAlpha(h_prev, al) + TimesAlpha(Real(x_p), al)

\* alpha forced into [0,1] before it is used
exp_update_clipped(h_prev, x_p, al) ==
    LET a == IF al < 0 THEN 0 ELSE IF al > AlphaDen THEN AlphaDen ELSE al
    IN  TimesAlpha(h_prev, a) + TimesOneMinusAlpha(Real(x_p), a)

\* the complement forgotten: alpha*h[-1] + x_p
exp_update_nocomplement(h_prev, x_p, al) ==
    TimesAlpha(h_prev, al) + Real(x_p)

\* h_p = alpha*h[-1] + (1 - alpha)*x_p
exp_update(h_prev, x_p, al) ==
    TimesAlpha(h_prev, al) + TimesOneMinusAlpha(Real(x_p), al)

ExpInit == Seed("exponential_average") /\ p' = 0

ExpStep ==
    /\ prog = "exponential_average"
    /\ pc = "loop"
    /\ p \in exp_range(x)
    /\ LET x_p == x[p + 1]          \* x_p = x[p], 0-based
           h_p == exp_update(h[Len(h)], x_p, alpha)
       IN  h' = Append(h, h_p)
    /\ p' = p + 1
    /\ UNCHANGED <<prog, x, alpha, pc, h_t, h_all, n, err>>
    /\ UNCHANGED <<call_vars, rec_vars>>

\* return np.array(h)
ExpReturn ==
    /\ prog = "exponential_average"
    /\ pc = "loop"
    /\ p \notin exp_range(x)
    /\ pc' = "done"
    /\ UNCHANGED <<prog, x, alpha, p, h, h_t, h_all, n, err>>
    /\ UNCHANGED <<call_vars, rec_vars>>

----------------------------------------------------------------------------
(* The running-maximum loop *)

\* for p in range(1, len(x))
max_range(xs) == Range(1, Len(xs))

\* the newest input replaces the state
np_latest(a, b) == b

\* the smaller of the two kept
np_minimum(a, b) == IF a <= b THEN a ELSE b

\* np.maximum(ave, x_p)
np_maximum(a, b) == IF a >= b THEN a ELSE b

MaxInit == Seed("running_max") /\ p' = 1

MaxStep ==
    /\ prog = "running_max"
    /\ pc = "loop"
    /\ p \in max_range(x)
    /\ LET ave == h[Len(h)]
           x_p == x[p + 1]          \* x_p = x[p], 0-based
           new_ave == np_maximum(ave, Real(x_p))
       IN  h' = Append(h, new_ave)
    /\ p' = p + 1
    /\ UNCHANGED <<prog, x, alpha, pc, h_t, h_all, n, err>>
    /\ UNCHANGED <<call_vars, rec_vars>>

MaxDone ==
    /\ prog = "running_max"
    /\ pc = "loop"
    /\ p \notin max_range(x)
    /\ pc' = "done"
    /\ UNCHANGED <<prog, x, alpha, p, h, h_t, h_all, n, err>>
    /\ UNCHANGED <<call_vars, rec_vars>>

----------------------------------------------------------------------------
(* The zero-crossing loop *)

\* strict inequalities: a value of exactly 0 is on neither side
zero_cross_counter_strict(x_t, x_t_minus_1) ==
    IF (x_t_minus_1 > 0 /\ x_t < 0) \/ (x_t_minus_1 < 0 /\ x_t > 0)
      THEN 1
      ELSE 0

zero_cross_counter(x_t, x_t_minus_1) ==
    IF (x_t_minus_1 >= 0 /\ x_t <= 0) \/ (x_t_minus_1 <= 0 /\ x_t >= 0)
      THEN 1
      ELSE 0

\* for t in range(1, len(x))
zc_range(xs) == Range(1, Len(xs))

ZcInit == Seed("zero_cross") /\ p' = 1

ZcStep ==
    /\ prog = "zero_cross"
    /\ pc = "loop"
    /\ p \in zc_range(x)
    /\ LET hh == h[Len(h)]          \* h_t = h[-1]
           x_t_minus_1 == x[p]      \* x[t-1], 0-based
           x_t == x[p + 1]          \* x[t], 0-based
           cross == zero_cross_counter(x_t, x_t_minus_1)
       IN  h' = Append(h, hh + Real(cross))
    /\ p' = p + 1
    /\ UNCHANGED <<prog, x, alpha, pc, h_t, h_all, n, err>>
    /\ UNCHANGED <<call_vars, rec_vars>>

ZcDone ==
    /\ prog = "zero_cross"
    /\ pc = "loop"
    /\ p \notin zc_range(x)
    /\ pc' = "done"
    /\ UNCHANGED <<prog, x, alpha, p, h, h_t, h_all, n, err>>
    /\ UNCHANGED <<call_vars, rec_vars>>

----------------------------------------------------------------------------
(* The running-histogram loop *)

\* the keys 0.0, 0.1, ..., 10.0 in tenths
BinLo == 0
BinHi == 100
bins == BinLo..BinHi

\* truncation toward the lower tenth instead of rounding
np_floor1(xh) == xh \div 10

\* np.round(x_t, 1): hundredths to the nearest tenth, a tie to the even tenth
np_round1(xh) ==
    LET q == xh \div 10
        r == xh % 10
    IN  IF r < 5 THEN q
        ELSE IF r > 5 THEN q + 1
        ELSE IF q % 2 = 0 THEN q ELSE q + 1

\* if x_t < 0: x_t = 0 ; if x_t > 10: x_t = 10
hist_clamp(b) ==
    LET a == IF b < BinLo THEN BinLo ELSE b
    IN  IF a > BinHi THEN BinHi ELSE a

\* for key in h_t.keys(): h_t[key] = h_t[key]*(1 - alpha)
hist_decay(ht, al) == [key \in DOMAIN ht |-> TimesOneMinusAlpha(ht[key], al)]

\* the key that h_t[x_t] += alpha reads and writes
hist_key(x_t) == hist_clamp(np_round1(x_t))

\* h_t[x_t] += alpha raises KeyError on a key the mapping does not hold
update_raises(ht, x_t) == hist_key(x_t) \notin DOMAIN ht

\* no clamping, and a missing key is created (a Counter-style mapping)
update_histogram_insert(ht, x_t, al) ==
    LET d == hist_decay(ht, al)
        k == np_round1(x_t)
    IN  IF k \in DOMAIN d
          THEN [d EXCEPT ![k] = @ + TimesAlpha(Real(1), al)]
          ELSE [key \in (DOMAIN d) \cup {k} |->
                  IF key = k THEN TimesAlpha(Real(1), al) ELSE d[key]]

\* the mapping update_histogram leaves behind (and returns, unless it raises)
update_histogram(ht, x_t, al) ==
    LET d == hist_decay(ht, al)
        k == hist_key(x_t)
    IN  IF k \in DOMAIN d
          THEN [d EXCEPT ![k] = @ + TimesAlpha(Real(1), al)]
          ELSE d

\* a pure update: the mapping handed in is left as it was
arg_untouched(ht, x_t, al) == ht

\* update_histogram assigns into the mapping it was handed (h_t[key] = ...,
\* h_t[x_t] += alpha) and returns that same object: when the call is over the
\* caller's mapping holds the weights update_histogram left behind
arg_after_call(ht, x_t, al) == update_histogram(ht, x_t, al)

\* the recorded entries are the live mapping itself (no copy): each shows
\* the weights the live mapping has now
recorded_aliased(hall, ht_new) == [i \in DOMAIN hall |-> ht_new]

\* h_all.append(copy.deepcopy(h_t)): every recorded entry is an object of
\* its own, so the in-place update of the live mapping leaves the entries
\* recorded so far as they were
recorded_after_update(hall, ht_new) == hall

\* h_t = {a:0 for a in bins}
hist_zero == [a \in bins |-> 0]

HistInit ==
    /\ prog = "histogram"
    /\ pc = "start"
    /\ h_t' = hist_zero
    /\ h_all' = <<hist_zero>>       \* [copy.deepcopy(h_t)]
    /\ n' = 1
    /\ p' = 0
    /\ pc' = "loop"
    /\ UNCHANGED <<prog, x, alpha, h, err>>
    /\ UNCHANGED <<call_vars, rec_vars>>

\* one iteration of: for x_t in x
HistStep ==
    /\ prog = "histogram"
    /\ pc = "loop"
    /\ p < Len(x)
    /\ LET x_t == x[p + 1] IN
         IF update_raises(h_t, x_t)
           THEN /\ h_t' = update_histogram(h_t, x_t, alpha)
                /\ err' = "KeyError"
                /\ pc' = "error"
                /\ UNCHANGED <<h_all, n, p>>
           ELSE /\ h_t' = update_histogram(h_t, x_t, alpha)
                /\ h_all' = Append(recorded_after_update(h_all, h_t'), h_t')
                /\ n' = n + 1
                /\ p' = p + 1
                /\ UNCHANGED <<pc, err>>
    /\ h_old' = h_t
    /\ h_arg' = arg_after_call(h_t, x[p + 1], alpha)
    /\ UNCHANGED <<prog, x, alpha, h>>
    /\ UNCHANGED rec_vars

HistDone ==
    /\ prog = "histogram"
    /\ pc = "loop"
    /\ p >= Len(x)
    /\ pc' = "done"
    /\ UNCHANGED <<prog, x, alpha, p, h, h_t, h_all, n, err>>
    /\ UNCHANGED <<call_vars, rec_vars>>

----------------------------------------------------------------------------

Next ==
    \/ ExpInit
    \/ ExpStep
    \/ ExpReturn
    \/ MaxInit
    \/ MaxStep
    \/ MaxDone
    \/ ZcInit
    \/ ZcStep
    \/ ZcDone
    \/ HistInit
    \/ HistStep
    \/ HistDone

Spec == Init /\ [][Next]_vars

----------------------------------------------------------------------------
(* The running mean and the running variance: the two coupled recursions   *)
(*   h^ave_p = ((p-1)/p) h^ave_{p-1} + (1/p) x_p                           *)
(*   h^var_p = ((p-1)/p) h^var_{p-1}                                       *)
(*               + (1/p) (x_p - h^ave_p) (x_p - h^ave_{p-1})               *)
(* evaluated in exact arithmetic.  A rational is a record [n, d] in lowest *)
(* terms with d > 0.  h_ave and h_var are indexed from 0: entry 0 is the   *)
(* value the recursion is started from, entry k the hidden state after k   *)
(* inputs.  The variable p counts the inputs consumed so far.              *)

RECURSIVE Gcd(_, _)
Gcd(a, b) == IF b = 0 THEN a ELSE Gcd(b, a % b)

Abs(a) == IF a < 0 THEN 0 - a ELSE a

\* the fraction a / b, b # 0
Frac(a, b) ==
    LET g == Gcd(Abs(a), Abs(b))
        sg == IF b < 0 THEN 0 - 1 ELSE 1
    IN  [n |-> (sg * a) \div g, d |-> (sg * b) \div g]

RInt(a) == [n |-> a, d |-> 1]
RAdd(r, q) == Frac(r.n * q.d + q.n * r.d, r.d * q.d)
RSub(r, q) == Frac(r.n * q.d - q.n * r.d, r.d * q.d)
RMul(r, q) == Frac(r.n * q.n, r.d * q.d)

\* step indices counted from 0, as range(len(x)) counts
step_index_from_zero(k) == k

\* the step index p of the input that arrives after k inputs: p starts at 1
step_index(k) == k + 1

\* the new deviation squared: (1/p)(x_p - h^ave_p)^2
var_update_squared(v_prev, x_p, ave_p, ave_prev, k) ==
    RAdd(RMul(Frac(k - 1, k), v_prev),
         RMul(Frac(1, k), RMul(RSub(RInt(x_p), ave_p), RSub(RInt(x_p), ave_p))))

\* h^ave_p = ((p-1)/p) h^ave_{p-1} + (1/p) x_p
mean_update(h_prev, x_p, k) ==
    RAdd(RMul(Frac(k - 1, k), h_prev), RMul(Frac(1, k), RInt(x_p)))

\* h^var_p = ((p-1)/p) h^var_{p-1} + (1/p)(x_p - h^ave_p)(x_p - h^ave_{p-1})
var_update(v_prev, x_p, ave_p, ave_prev, k) ==
    RAdd(RMul(Frac(k - 1, k), v_prev),
         RMul(Frac(1, k), RMul(RSub(RInt(x_p), ave_p), RSub(RInt(x_p), ave_prev))))

\* the values the recursions are started from (the formulas leave them open)
SeedVals == {0, 1}

\* f with the entry k added
Extend(f, k, v) == [i \in (DOMAIN f) \cup {k} |-> IF i = k THEN v ELSE f[i]]

RecInit ==
    /\ prog = "running_variance"
    /\ x \in SeqsUpTo(Vals, MaxLen)
    /\ alpha = ExpAlpha
    /\ pc = "loop"
    /\ p = 0
    /\ \E a0 \in SeedVals, v0 \in SeedVals :
         /\ h_ave = [i \in {0} |-> RInt(a0)]
         /\ h_var = [i \in {0} |-> RInt(v0)]
    /\ h = <<>>
    /\ h_t = NoHist
    /\ h_all = <<>>
    /\ n = 0
    /\ err = "none"
    /\ h_old = NoHist
    /\ h_arg = NoHist

\* one step: the running mean first, the running variance on top of it
RecStep ==
    /\ prog = "running_variance"
    /\ pc = "loop"
    /\ p < Len(x)
    /\ LET k == step_index(p) IN
         IF k = 0
           THEN /\ err' = "ZeroDivisionError"     \* (p-1)/p with p = 0
                /\ pc' = "error"
                /\ UNCHANGED <<p, h_ave, h_var>>
           ELSE LET x_p == x[p + 1]
                    ave_p == mean_update(h_ave[p], x_p, k)
                    var_p == var_update(h_var[p], x_p, ave_p, h_ave[p], k)
                IN  /\ h_ave' = Extend(h_ave, p + 1, ave_p)
                    /\ h_var' = Extend(h_var, p + 1, var_p)
                    /\ p' = p + 1
                    /\ UNCHANGED <<pc, err>>
    /\ UNCHANGED <<prog, x, alpha, h, h_t, h_all, n, call_vars>>

RecDone ==
    /\ prog = "running_variance"
    /\ pc = "loop"
    /\ p >= Len(x)
    /\ pc' = "done"
    /\ UNCHANGED <<prog, x, alpha, p, h, h_t, h_all, n, err>>
    /\ UNCHANGED <<call_vars, rec_vars>>

RecNext ==
    \/ RecStep
    \/ RecDone

RecSpec == RecInit /\ [][RecNext]_vars

----------------------------------------------------------------------------
(* Claims about exponential_average *)

ExpDone == prog = "exponential_average" /\ pc = "done"

\* C1: exponential_average(x, alpha) returns h with h_1 = x_1 and, for every
\* p in 2..P, h_p = alpha*h_{p-1} + (1-alpha)*x_p: step p combines the
\* previous hidden state with the input of the same step p.
C1_SameStepRecurrence ==
    ExpDone =>
        /\ Len(h) = Len(x)
        /\ h[1] = Real(x[1])
        /\ \A q \in 2..Len(x) :
             AlphaDen * h[q] = alpha * h[q - 1] + (AlphaDen - alpha) * Real(x[q])

\* C2: with alpha = 0 the p-th output of exponential_average(x, 0) equals
\* x_p, for every p in 1..len(x).
C2_AlphaZeroPassthrough ==
    (ExpDone /\ alpha = 0) =>
        \A q \in 1..Len(x) : q \in DOMAIN h /\ h[q] = Real(x[q])

\* C3: with alpha = 1 every output of exponential_average(x, 1) equals the
\* first output h_1, which is x_1.
C3_AlphaOnePersistent ==
    (ExpDone /\ alpha = AlphaDen) =>
        \A q \in 1..Len(x) : q \in DOMAIN h /\ h[q] = h[1] /\ h[1] = Real(x[1])

\* a finished run with alpha = 1 whose later inputs differ from the first
C3_Witness ==
    /\ ExpDone
    /\ alpha = AlphaDen
    /\ Len(x) >= 3
    /\ x[2] # x[1]
    /\ x[3] # x[1]
    /\ Len(h) = 3

----------------------------------------------------------------------------
(* Claims about the length of the produced sequence *)

\* the sequence of hidden states the evaluator hands to its consumer
Produced == IF prog = "histogram" THEN h_all ELSE h

\* C4 (as stated): every evaluator (exponential average, running maximum,
\* zero-crossing count, running histogram) produces exactly one hidden state
\* per input element, so the produced sequence is as long as the input.
C4_OnePerInput == pc = "done" => Len(Produced) = Len(x)

\* C4 (amended): exponential_average, the running-maximum loop and the
\* zero-crossing loop, when they return, have produced exactly one hidden
\* state per input element, appended in input order; the histogram loop
\* records the initial state and then one state per input element, so h_all
\* has len(x) + 1 entries.
C4_LengthPerEvaluator ==
    /\ (prog = "histogram" /\ pc \in {"loop", "done"}) =>
          /\ Len(h_all) = p + 1
          /\ pc = "done" => p = Len(x)
    /\ (prog = "exponential_average" /\ pc \in {"loop", "done"}) =>
          /\ Len(h) = p + 1
          /\ pc = "done" => Len(h) = Len(x)
    /\ (prog \in {"running_max", "zero_cross"} /\ pc \in {"loop", "done"}) =>
          /\ Len(h) = p
          /\ pc = "done" => Len(h) = Len(x)

\* a histogram run over the longest input has finished, with the initial
\* state and one state per input recorded
C4_Witness ==
    /\ prog = "histogram"
    /\ pc = "done"
    /\ Len(x) = MaxHistLen
    /\ Len(h_all) = MaxHistLen + 1

----------------------------------------------------------------------------
(* Claims about the zero-crossing loop *)

ZcDoneState == prog = "zero_cross" /\ pc = "done"

\* x_{j-1} and x_j straddle zero (strictly)
Straddle(a, b) == (a < 0 /\ b > 0) \/ (a > 0 /\ b < 0)

\* C5: the zero-crossing hidden state h_p is the number of indices j in 2..p
\* for which x_{j-1} and x_j straddle zero (x_{j-1} < 0 and x_j > 0, or vice
\* versa); in particular h_1 is a count of 0 whatever x_1 is.
C5_RunningCrossingCount ==
    ZcDoneState =>
        \A q \in 1..Len(x) :
            /\ q \in DOMAIN h
            /\ h[q] = Real(Cardinality({j \in 2..q : Straddle(x[j - 1], x[j])}))

----------------------------------------------------------------------------
(* Claims about the histogram loop *)

HistRunning == prog = "histogram" /\ pc \in {"loop", "done", "error"}

RECURSIVE SumBetween(_, _, _, _)
\* the sum of f over the keys of S in lo..hi, by halving the interval
SumBetween(f, S, lo, hi) ==
    IF lo > hi THEN 0
    ELSE IF lo = hi THEN (IF lo \in S THEN f[lo] ELSE 0)
    ELSE LET mid == (lo + hi) \div 2
         IN  SumBetween(f, S, lo, mid) + SumBetween(f, S, mid + 1, hi)

\* the sum of f over the set S of integer keys
SumOver(f, S) ==
    IF S = {} THEN 0
    ELSE SumBetween(f, S, CHOOSE m \in S : \A k \in S : m <= k,
                          CHOOSE m \in S : \A k \in S : m >= k)

\* the total weight of a histogram
Mass(ht) == SumOver(ht, DOMAIN ht)

\* within one percent of 1
NearOne(m) == 100 * m >= 99 * Real(1) /\ 100 * m <= 101 * Real(1)

\* C7: in the histogram loop as the notebook initializes and runs it (all
\* bins 0, alpha = 0.1), the sum of all bin weights is approximately 1 after
\* any number of update steps, including after the first step and before any
\* step.
C7_MassIsOne ==
    (HistRunning /\ alpha = HistAlpha) =>
        \A i \in 1..Len(h_all) : NearOne(Mass(h_all[i]))

\* C8: the histogram's set of bin keys is fixed at initialization (the grid
\* 0.0, 0.1, ..., 10.0) and is the same after any sequence of update_histogram
\* calls, for inputs below 0 and above 10 too: no update adds or removes a
\* key, and the bin that is incremented is one of the initial keys.
C8_KeysFixed ==
    HistRunning =>
        /\ DOMAIN h_t = bins
        /\ \A i \in 1..Len(h_all) : DOMAIN h_all[i] = bins
        /\ \A i \in 1..p : hist_key(x[i]) \in bins
        /\ err = "none"

\* a finished run that was fed an input below 0 and an input above 10
C8_Witness ==
    /\ prog = "histogram"
    /\ pc = "done"
    /\ Len(h_all) = Len(x) + 1
    /\ \E i \in 1..Len(x) : x[i] < 0
    /\ \E i \in 1..Len(x) : x[i] > 1000
    /\ alpha \notin {0, AlphaDen}

\* the bin of the input xh (in hundredths): 0 below the grid, 10.0 above it,
\* otherwise a tenth at distance at most 0.05 (at an exact tie either
\* neighbour is a rounding of xh)
IsBinOf(b, xh) ==
    /\ b \in bins
    /\ IF xh < 10 * BinLo THEN b = BinLo
       ELSE IF xh > 10 * BinHi THEN b = BinHi
       ELSE (10 * b - xh) \in (0 - 5)..5

----------------------------------------------------------------------------
(* Claims about the empty input *)

Finished == pc \in {"done", "error"}

\* C10 (as stated): every evaluator, given an empty input sequence, fails
\* with an error instead of returning a sequence of hidden states; this holds
\* for exponential_average, the running-maximum loop, the zero-crossing loop
\* and the histogram loop alike.
C10_EmptyInputFails ==
    (Len(x) = 0 /\ Finished) => (pc = "error" /\ err # "none")

\* C10 (amended): exponential_average, the running-maximum loop and the
\* zero-crossing loop, given an empty input sequence, fail with an
\* IndexError at h = [x[0]] and produce no hidden state; the histogram loop
\* does not fail on an empty input: it ends normally with h_all holding only
\* the initial all-zero histogram.
C10_EmptyInputPerEvaluator ==
    Len(x) = 0 =>
        /\ prog # "histogram" =>
              /\ pc \in {"start", "error"}
              /\ h = <<>>
              /\ pc = "error" <=> err = "IndexError"
        /\ prog = "histogram" =>
              /\ pc \in {"start", "loop", "done"}
              /\ err = "none"
              /\ pc # "start" => h_all = <<hist_zero>>

\* exponential_average has raised on the empty input
C10_Witness ==
    /\ prog = "exponential_average"
    /\ Len(x) = 0
    /\ pc = "error"
    /\ err = "IndexError"

----------------------------------------------------------------------------
(* Claims about a smoothing parameter outside [0,1] *)

AlphaOutOfRange == alpha < 0 \/ alpha > AlphaDen

TakesAlpha == prog \in {"exponential_average", "histogram"}

\* C11 (as stated): an evaluator given a smoothing parameter alpha outside
\* [0,1] (exponential_average or update_histogram) ends in an
\* InvalidParameter error and produces no hidden state computed with that
\* alpha.  (Stated for the runs in which the update is attempted at all: on
\* an empty input the histogram loop never calls update_histogram.)
C11_BadAlphaRejected ==
    (TakesAlpha /\ AlphaOutOfRange /\ Len(x) > 0) =>
        /\ Finished => (pc = "error" /\ err = "InvalidParameter")
        /\ Len(h) <= 1
        /\ Len(h_all) <= 1

\* C11 (amended): neither exponential_average nor update_histogram checks
\* alpha.  Given an alpha outside [0,1] they raise no InvalidParameter error
\* and apply their update with that alpha: exponential_average returns one
\* state per input, each later state being alpha*h[-1] + (1-alpha)*x[p] for
\* the input x[p] the loop reads, and every histogram step maps the total
\* weight m to (1-alpha)*m + alpha.  The only error is the IndexError of
\* exponential_average on an empty input.
C11_BadAlphaComputed ==
    (TakesAlpha /\ AlphaOutOfRange) =>
        /\ err # "InvalidParameter"
        /\ pc = "error" => (prog = "exponential_average" /\ Len(x) = 0)
        /\ (prog = "exponential_average" /\ pc \in {"loop", "done"}) =>
              /\ \A q \in 2..Len(h) :
                   AlphaDen * h[q] =
                      alpha * h[q - 1] + (AlphaDen - alpha) * Real(x[q - 1])
              /\ pc = "done" => Len(h) = Len(x)
        /\ (prog = "histogram" /\ pc \in {"loop", "done"}) =>
              /\ \A i \in 1..(Len(h_all) - 1) :
                   AlphaDen * Mass(h_all[i + 1]) =
                      (AlphaDen - alpha) * Mass(h_all[i]) + alpha * Real(1)
              /\ pc = "done" => Len(h_all) = Len(x) + 1

\* exponential_average has returned a state above every input: it was
\* computed with an alpha above 1
C11_Witness ==
    /\ ExpDone
    /\ alpha > AlphaDen
    /\ Len(h) = Len(x)
    /\ \E q \in DOMAIN h : h[q] > Real(MaxVal)

----------------------------------------------------------------------------
(* Claims about the side effect of update_histogram *)

\* an update_histogram call has returned
Called == prog = "histogram" /\ pc \in {"loop", "done"} /\ p >= 1

----------------------------------------------------------------------------
(* Claims about the running-maximum loop *)

MaxRunning == prog = "running_max" /\ pc \in {"loop", "done"}

\* C13: the running maximum produced by the loop is monotonically
\* non-decreasing: h_p >= h_{p-1} for every p in 2..len(x).
C13_MaxNonDecreasing ==
    MaxRunning =>
        /\ \A q \in 2..Len(h) : h[q] >= h[q - 1]
        /\ pc = "done" => Len(h) = Len(x)

\* a finished run over an input that goes up and then down
C13_Witness ==
    /\ prog = "running_max"
    /\ pc = "done"
    /\ Len(x) >= 3
    /\ x[2] > x[1]
    /\ x[3] < x[2]
    /\ Len(h) = Len(x)

\* C14: for every non-empty input and every p in 1..len(x), the
\* running-maximum hidden state h_p equals max(x_1, ..., x_p): it is an
\* element of the prefix and no element of the prefix exceeds it.
C14_MaxOfPrefix ==
    (prog = "running_max" /\ pc = "done") =>
        \A q \in 1..Len(x) :
            /\ q \in DOMAIN h
            /\ \E j \in 1..q : h[q] = Real(x[j])
            /\ \A j \in 1..q : Real(x[j]) <= h[q]

\* a finished run whose maximum is neither the first nor the last input
C14_Witness ==
    /\ prog = "running_max"
    /\ pc = "done"
    /\ Len(x) >= 3
    /\ x[2] > x[1]
    /\ x[Len(x)] < x[2]
    /\ h[Len(x)] = Real(x[2])

----------------------------------------------------------------------------
(* Claims about the running mean and the running variance (under RecSpec)  *)

RecRunning == prog = "running_variance" /\ pc \in {"loop", "done"}

RECURSIVE SumX(_)
\* x_1 + ... + x_q
SumX(q) == IF q = 0 THEN 0 ELSE x[q] + SumX(q - 1)

RECURSIVE SqDev(_, _)
\* sum over j in 1..m of (q*x_j - (x_1 + ... + x_q))^2
SqDev(m, q) ==
    IF m = 0 THEN 0
    ELSE (q * x[m] - SumX(q)) * (q * x[m] - SumX(q)) + SqDev(m - 1, q)

\* C15: the two coupled recursions, started at p = 1, give at every p in
\* 1..P the population variance (1/p) * sum_{j=1..p} (x_j - mean(x_1..x_p))^2
\* of the prefix, for every input sequence (exact arithmetic).
C15_VarianceOfPrefix ==
    RecRunning =>
        /\ \A q \in 1..p :
             /\ q \in DOMAIN h_var
             /\ h_var[q].d > 0
             /\ h_var[q].n * q * q * q = h_var[q].d * SqDev(q, q)
        /\ pc = "done" => p = Len(x)

\* the recursion has run over the longest input, started from a nonzero
\* value, and the final variance is not 0
C15_Witness ==
    /\ prog = "running_variance"
    /\ pc = "done"
    /\ Len(x) = MaxLen
    /\ h_var[0].n # 0
    /\ h_ave[0].n # 0
    /\ h_var[MaxLen].n > 0
    /\ h_var[MaxLen].d > 1

\* C16: the running-mean recursion h_p = ((p-1)/p)*h_{p-1} + (1/p)*x_p, with
\* step indices starting at p = 1, gives at every p in 1..P the arithmetic
\* mean (x_1 + ... + x_p)/p of the prefix for every input sequence (exact
\* arithmetic), and never divides by a step counter of zero.
C16_MeanOfPrefix ==
    (prog = "running_variance") =>
        /\ err = "none"
        /\ pc # "error"
        /\ \A q \in 1..p :
             /\ q \in DOMAIN h_ave
             /\ h_ave[q].d > 0
             /\ h_ave[q].n * q = h_ave[q].d * SumX(q)
        /\ pc = "done" => p = Len(x)

\* the recursion has run over the longest input, started from a nonzero
\* value, and the final mean is not an integer
C16_Witness ==
    /\ prog = "running_variance"
    /\ pc = "done"
    /\ Len(x) = MaxLen
    /\ h_ave[0].n # 0
    /\ h_ave[MaxLen].d > 1

----------------------------------------------------------------------------
(* Claims about the range of the exponential average *)

\* C17: for every alpha in [0,1] and every non-empty input x, every output
\* h_p of exponential_average(x, alpha) lies between the minimum and the
\* maximum of the input elements: the average never overshoots the data.
C17_WithinInputRange ==
    (ExpDone /\ alpha >= 0 /\ alpha <= AlphaDen) =>
        /\ Len(h) = Len(x)
        /\ \A q \in 1..Len(h) :
             /\ \E j \in 1..Len(x) : Real(x[j]) <= h[q]
             /\ \E j \in 1..Len(x) : h[q] <= Real(x[j])

\* a finished run with 0 < alpha < 1 whose last state lies strictly between
\* the smallest and the largest input
C17_Witness ==
    /\ ExpDone
    /\ alpha = ExpAlpha
    /\ Len(x) >= 3
    /\ \E i, j \in 1..Len(x) :
         /\ Real(x[i]) < h[Len(h)]
         /\ h[Len(h)] < Real(x[j])

----------------------------------------------------------------------------
(* Claims about the recorded history of the histogram loop *)

RECURSIVE StateAfter(_)
\* the histogram after exactly k updates, from the all-zero mapping
StateAfter(k) ==
    IF k = 0 THEN hist_zero
    ELSE update_histogram(StateAfter(k - 1), x[k], alpha)

\* C18: although update_histogram mutates the live mapping in place, the
\* recorded history is stable: the k-th entry of h_all (0-based) is the
\* histogram after exactly k updates, entry 0 being the all-zero initial
\* state, and no later update step changes an entry already appended.
\* (StateAfter(k) depends on the input and on alpha only, which no step
\* changes: an entry that equals it in every state never changes.)
C18_HistoryStable ==
    (prog = "histogram" /\ pc # "start") =>
        /\ Len(h_all) = p + 1
        /\ h_all[1] = hist_zero
        /\ \A i \in 1..Len(h_all) : h_all[i] = StateAfter(i - 1)
        /\ h_t = StateAfter(p)
        /\ p >= 1 => h_all[p] = h_old

\* three updates have been recorded and the live mapping has moved away from
\* each of the earlier entries
C18_Witness ==
    /\ prog = "histogram"
    /\ pc = "done"
    /\ alpha = HistAlpha
    /\ Len(h_all) = 4
    /\ h_all[1] = hist_zero
    /\ \A i \in 1..3 : h_all[i] # h_t
    /\ h_all[4] = h_t

====
